---- MODULE Spec2Model ----
(***************************************************************************)
(* Status aggregation dashboard: the per-source status functions of        *)
(* helpers.py, the coordinator fetch_all_statuses and the session cache of *)
(* main() in app_main.py.                                                  *)
(*                                                                         *)
(* Python values are modelled as follows.  A dict is a function on its     *)
(* keys.  An optional value is a sequence of length at most one: None is   *)
(* <<>> and a present value x is <<x>>.  A string the code searches in is  *)
(* a sequence of characters; a string the code only copies is a TLA+       *)
(* string.  An exception object is a dict with the key "exception".        *)
(***************************************************************************)
EXTENDS Integers, Sequences, FiniteSets, TLC

(* ---------------------------------------------------------------------- *)
(* Bounds of the model                                                     *)
(* ---------------------------------------------------------------------- *)

\* how many clock advances a behaviour may contain
MaxTicks == 3

\* how many sources may deviate from the nominal document at one time
MaxAbnormal == 1

\* how many browser drivers may be created for one source
MaxDrivers == 2

(* ---------------------------------------------------------------------- *)
(* Optional values                                                         *)
(* ---------------------------------------------------------------------- *)

None == <<>>

Some(x) == <<x>>

(* ---------------------------------------------------------------------- *)
(* Strings: str.lower() and the `in` substring test                        *)
(* ---------------------------------------------------------------------- *)

UpperCase ==
  <<"A","B","C","D","E","F","G","H","I","J","K","L","M","N","O","P","Q","R","S","T","U","V","W","X","Y","Z">>

LowerCase ==
  <<"a","b","c","d","e","f","g","h","i","j","k","l","m","n","o","p","q","r","s","t","u","v","w","x","y","z">>

LowerChar(c) ==
  IF \E i \in 1..Len(UpperCase) : UpperCase[i] = c
  THEN LowerCase[CHOOSE i \in 1..Len(UpperCase) : UpperCase[i] = c]
  ELSE c

\* s.lower()
Lower(s) == [i \in 1..Len(s) |-> LowerChar(s[i])]

\* sub in s
Contains(sub, s) ==
  \E i \in 0..(Len(s) - Len(sub)) : SubSeq(s, i + 1, i + Len(sub)) = sub

(* ---------------------------------------------------------------------- *)
(* Key phrases of the classification rules and sample texts               *)
(* ---------------------------------------------------------------------- *)

OPENAI_PHRASE ==
  <<"a","l","l"," ","i","m","p","a","c","t","e","d"," ","s","e","r","v","i","c","e","s"," ","h","a","v","e"," ","n","o","w"," ","f","u","l","l","y"," ","r","e","c","o","v","e","r","e","d">>

RESOLVED_PHRASE ==
  <<"r","e","s","o","l","v","e","d">>

API_OUTAGE_PHRASE ==
  <<"a","p","i"," ","o","u","t","a","g","e">>

GCP_PHRASE ==
  <<"r","e","s","o","l","v","e","d",":">>

GEMINI_PHRASE ==
  <<"a","l","l"," ","s","y","s","t","e","m","s"," ","o","p","e","r","a","t","i","o","n","a","l">>

TitleResolved ==
  <<"R","E","S","O","L","V","E","D",":"," ","O","u","t","a","g","e">>

TitleIncident ==
  <<"E","l","e","v","a","t","e","d"," ","e","r","r","o","r","s">>

BodyResolved ==
  <<"R","e","s","o","l","v","e","d"," ","-"," ","A","l","l"," ","i","m","p","a","c","t","e","d"," ","s","e","r","v","i","c","e","s"," ","h","a","v","e"," ","n","o","w"," ","f","u","l","l","y"," ","r","e","c","o","v","e","r","e","d",".">>

BodyIncident ==
  <<"W","e"," ","a","r","e"," ","i","n","v","e","s","t","i","g","a","t","i","n","g"," ","e","l","e","v","a","t","e","d"," ","e","r","r","o","r"," ","r","a","t","e","s",".">>

SpanOperational ==
  <<"A","l","l"," ","S","y","s","t","e","m","s"," ","O","p","e","r","a","t","i","o","n","a","l">>

SpanIncident ==
  <<"S","e","r","v","i","c","e"," ","d","i","s","r","u","p","t","i","o","n">>

SpanIcon ==
  <<"c","h","e","c","k","_","c","i","r","c","l","e">>

BodyRecovered ==
  <<"A","l","l"," ","i","m","p","a","c","t","e","d"," ","s","e","r","v","i","c","e","s"," ","h","a","v","e"," ","n","o","w"," ","f","u","l","l","y"," ","r","e","c","o","v","e","r","e","d",".">>

BodyOutageResolved ==
  <<"R","e","s","o","l","v","e","d"," ","-"," ","t","h","e"," ","A","P","I"," ","o","u","t","a","g","e"," ","i","s"," ","o","v","e","r",".">>

BodyMonitoring ==
  <<"A"," ","f","i","x"," ","i","s"," ","b","e","i","n","g"," ","m","o","n","i","t","o","r","e","d",".">>

LLAMAINDEX_PHRASE ==
  <<"n","o"," ","i","n","c","i","d","e","n","t","s"," ","r","e","p","o","r","t","e","d"," ","t","o","d","a","y">>

ALICLOUD_PHRASE ==
  <<"n","o"," ","i","n","c","i","d","e","n","t",","," ","e","v","e","r","y","t","h","i","n","g"," ","i","s"," ","n","o","r","m","a","l">>

ParaNoIncidents ==
  <<"N","o"," ","i","n","c","i","d","e","n","t","s"," ","r","e","p","o","r","t","e","d"," ","t","o","d","a","y",".">>

ParaIncident ==
  <<"I","n","v","e","s","t","i","g","a","t","i","n","g"," ","-"," ","e","l","e","v","a","t","e","d"," ","l","a","t","e","n","c","y">>

HeadingOutage ==
  <<"P","a","r","t","i","a","l"," ","S","y","s","t","e","m"," ","O","u","t","a","g","e">>

NoticeNormal ==
  <<"N","o"," ","i","n","c","i","d","e","n","t",","," ","e","v","e","r","y","t","h","i","n","g"," ","i","s"," ","n","o","r","m","a","l">>

NoticeEvents ==
  <<"2"," ","e","v","e","n","t","s"," ","i","n"," ","p","r","o","g","r","e","s","s">>

(* ---------------------------------------------------------------------- *)
(* The outside world: what each provider's status channel serves          *)
(* ---------------------------------------------------------------------- *)

\* the awaitables handed to asyncio.gather, in argument order
Fetchers ==
  <<"get_openai_status", "get_deepseek_status", "get_gemini_status",
    "get_anthropic_status", "get_perplexity_status", "get_langsmith_status",
    "get_aws_status", "get_gcp_status", "get_azure_status">>

FetcherSet == {Fetchers[i] : i \in 1..Len(Fetchers)}

FeedFetchers == FetcherSet \ {"get_gemini_status"}

\* the entries of a feed: title, link, description (RSS) or content (Atom),
\* and the "updated" element, which is an ISO 8601 time (at) or some other text

\* a well-formed entry reporting a resolved incident
EntryResolved ==
  [title |-> TitleResolved, link |-> "https://status.example/incidents/1",
   description |-> BodyResolved, content |-> BodyResolved,
   updated |-> [iso |-> TRUE, at |-> 2]]

\* a well-formed entry reporting an ongoing incident
EntryIncident ==
  [title |-> TitleIncident, link |-> "https://status.example/incidents/2",
   description |-> BodyIncident, content |-> BodyIncident,
   updated |-> [iso |-> TRUE, at |-> 3]]

\* the recovery sentence alone, without the word "resolved"
EntryRecovered ==
  [title |-> TitleIncident, link |-> "https://status.example/incidents/3",
   description |-> BodyRecovered, content |-> BodyRecovered,
   updated |-> [iso |-> TRUE, at |-> 2]]

\* an outage reported as resolved
EntryOutageResolved ==
  [title |-> TitleIncident, link |-> "https://status.example/incidents/4",
   description |-> BodyOutageResolved, content |-> BodyOutageResolved,
   updated |-> [iso |-> TRUE, at |-> 2]]

\* resolved in the title only
EntryTitleOnly ==
  [title |-> TitleResolved, link |-> "https://status.example/incidents/5",
   description |-> BodyMonitoring, content |-> BodyMonitoring,
   updated |-> [iso |-> TRUE, at |-> 2]]

\* resolved in the content element only
EntryContentOnly ==
  [title |-> TitleIncident, link |-> "https://status.example/incidents/6",
   description |-> BodyMonitoring, content |-> BodyOutageResolved,
   updated |-> [iso |-> TRUE, at |-> 2]]

\* entry e without the field
Without(e, field) == [k \in DOMAIN e \ {field} |-> e[k]]

\* documents a feed endpoint may serve
FeedDocs == {"resolved", "incident", "empty", "unreachable", "hang"}

\* pages the Gemini status site may serve
PageDocs == {"operational", "incident", "onespan", "noanchor", "noroot", "navfail", "hang"}

Docs(f) == IF f = "get_gemini_status" THEN PageDocs ELSE FeedDocs

\* the document of a source on a day without incidents
Nominal(f) ==
  CASE f = "get_gemini_status" -> "operational"
    [] f \in {"get_aws_status", "get_azure_status"} -> "empty"
    [] OTHER -> "resolved"

\* the blocking network call of a fetch never returns
Hangs(doc) == doc = "hang"

\* the HTTP request or feedparser.parse raises
FetchRaises(doc) == doc = "unreachable"

\* feed.entries of the parsed document; an empty or unparsable document
\* parses to zero entries
Entries(doc) ==
  CASE doc = "resolved"        -> <<EntryResolved>>
    [] doc = "incident"        -> <<EntryIncident>>
    [] doc = "recovered"       -> <<EntryRecovered>>
    [] doc = "outage_resolved" -> <<EntryOutageResolved>>
    [] doc = "title_only"      -> <<EntryTitleOnly>>
    [] doc = "content_only"    -> <<EntryContentOnly>>
    [] doc = "older_resolved"  -> <<EntryIncident, EntryResolved>>
    [] doc = "newer_resolved"  ->
         <<EntryIncident, [EntryResolved EXCEPT !.updated.at = EntryIncident.updated.at + 1]>>
    [] doc = "no_updated"      -> <<Without(EntryResolved, "updated")>>
    [] doc = "bad_updated"     -> <<[EntryResolved EXCEPT !.updated.iso = FALSE]>>
    [] doc = "no_title"        -> <<Without(EntryResolved, "title")>>
    [] doc = "no_link"         -> <<Without(EntryResolved, "link")>>
    [] doc = "no_description"  -> <<Without(EntryResolved, "description")>>
    [] OTHER -> <<>>

\* feedparser could not parse the document: it sets bozo, raises nothing and
\* returns no entries
ParseFails(doc) == doc = "malformed"

\* the documents a status function is called with directly: those of
\* FeedDocs that let the call return, and further ones; "newer_resolved"
\* lists an older entry before a newer one
CallFeedDocs ==
  (FeedDocs \ {"hang"}) \cup
  {"recovered", "outage_resolved", "title_only", "content_only", "older_resolved",
   "newer_resolved", "no_title", "no_link", "no_description", "no_updated",
   "bad_updated", "malformed"}

RECURSIVE WorldsUpTo(_)
\* every assignment of documents that differs from the nominal one for at
\* most k sources
WorldsUpTo(k) ==
  IF k = 0 THEN {[f \in FetcherSet |-> Nominal(f)]}
  ELSE LET W == WorldsUpTo(k - 1) IN
       W \cup UNION {UNION {{[w EXCEPT ![f] = d] : d \in Docs(f)} : f \in FetcherSet} : w \in W}

(* ---------------------------------------------------------------------- *)
(* helpers.py: the shared HTTP session                                    *)
(* ---------------------------------------------------------------------- *)

\* Retry(total=3, ...)
RETRY_TOTAL == 3

\* Retry(status_forcelist=[429, 500, 502, 503, 504])
STATUS_FORCELIST == {429, 500, 502, 503, 504}

\* _http_session.timeout = 10
SESSION_TIMEOUT == 10

\* the requests.Session get_http_session builds: the retry strategy of its
\* adapter and the attribute `timeout` set on the session object
NewHttpSession ==
  [total |-> RETRY_TOTAL, status_forcelist |-> STATUS_FORCELIST,
   timeout |-> SESSION_TIMEOUT]

\* get_http_session: _http_session once the function has returned
get_http_session(session) ==
  IF session = None THEN Some(NewHttpSession) ELSE session

\* the status functions that call get_http_session
SessionFetchers ==
  {"get_openai_status", "get_deepseek_status", "get_llamaindex_status"}

\* _http_session after status function f has run
SessionAfter(f, session) ==
  IF f \in SessionFetchers THEN get_http_session(session) ELSE session

\* how status function f issues its request.  session.get(rss_url) passes no
\* timeout and requests does not read an attribute `timeout` of the session,
\* so the request waits without limit; feedparser.parse(rss_url) opens the
\* URL with urllib, without retry and without timeout.
FeedRequest(f, session) ==
  IF f \in SessionFetchers
  THEN [via      |-> "session",
        timeout  |-> None,
        retries  |-> session[1].total,
        retry_on |-> session[1].status_forcelist]
  ELSE [via      |-> "feedparser",
        timeout  |-> None,
        retries  |-> 0,
        retry_on |-> {}]

(* ---------------------------------------------------------------------- *)
(* helpers.py: the per-source status functions                            *)
(* ---------------------------------------------------------------------- *)

NO_LINK == "Refer to status page as no specific link is available"

StatusRecord(name, status, status_url, issue_link) ==
  [name |-> name, status |-> status, status_url |-> status_url, issue_link |-> issue_link]

\* an exception object
Exception(type, message) == [exception |-> type, message |-> message]

\* latest_entry.<field> raises AttributeError when the entry lacks the field
Has(entry, fields) == fields \subseteq DOMAIN entry

OperationalIf(b) == IF b THEN "Operational" ELSE "Disrupted"

\* the entry of a non-empty feed with the latest "updated" time
RECURSIVE LatestByDate(_)
LatestByDate(entries) ==
  IF Len(entries) = 1 THEN entries[1]
  ELSE LET rest == LatestByDate(Tail(entries)) IN
       IF /\ Has(entries[1], {"updated"}) /\ Has(rest, {"updated"})
          /\ rest.updated.at > entries[1].updated.at
       THEN rest ELSE entries[1]

\* get_openai_status reading the entry with the latest date
get_openai_status_latest_by_date(doc) ==
  LET name == "OpenAI API Status"
      status_url == "https://status.openai.com"
      unknown == StatusRecord(name, "Unknown", status_url, NO_LINK)
      entries == Entries(doc)
  IN  IF FetchRaises(doc) THEN unknown
      ELSE IF entries # <<>>
      THEN LET latest_entry == LatestByDate(entries) IN
           IF ~Has(latest_entry, {"title", "link", "description"}) THEN unknown
           ELSE StatusRecord(name,
                  OperationalIf(Contains(OPENAI_PHRASE, Lower(latest_entry.description))),
                  status_url, latest_entry.link)
      ELSE unknown

get_openai_status(doc) ==
  LET name == "OpenAI API Status"
      status_url == "https://status.openai.com"
      unknown == StatusRecord(name, "Unknown", status_url, NO_LINK)
      entries == Entries(doc)
  IN  IF FetchRaises(doc) THEN unknown
      ELSE IF entries # <<>>
      THEN LET latest_entry == entries[1] IN
           IF ~Has(latest_entry, {"title", "link", "description"}) THEN unknown
           ELSE StatusRecord(name,
                  OperationalIf(Contains(OPENAI_PHRASE, Lower(latest_entry.description))),
                  status_url, latest_entry.link)
      ELSE unknown

\* get_deepseek_status without the parse of "updated"
get_deepseek_status_date_unread(doc) ==
  LET name == "Deepseek API Status"
      status_url == "https://status.deepseek.com"
      unknown == StatusRecord(name, "Unknown", status_url, NO_LINK)
      entries == Entries(doc)
  IN  IF FetchRaises(doc) THEN unknown
      ELSE IF entries # <<>>
      THEN LET latest_entry == entries[1]
               content == IF Has(latest_entry, {"content"}) THEN latest_entry.content ELSE <<>>
           IN
           IF ~Has(latest_entry, {"title", "link"}) THEN unknown
           ELSE StatusRecord(name,
                  OperationalIf(Contains(RESOLVED_PHRASE, Lower(content))),
                  status_url, latest_entry.link)
      ELSE unknown

get_deepseek_status(doc) ==
  LET name == "Deepseek API Status"
      status_url == "https://status.deepseek.com"
      unknown == StatusRecord(name, "Unknown", status_url, NO_LINK)
      entries == Entries(doc)
  IN  IF FetchRaises(doc) THEN unknown
      ELSE IF entries # <<>>
      THEN LET latest_entry == entries[1]
               content == IF Has(latest_entry, {"content"}) THEN latest_entry.content ELSE <<>>
           IN
           IF ~Has(latest_entry, {"title", "link"}) THEN unknown
           \* datetime.fromisoformat(latest_entry.get('updated')) raises on a
           \* missing or non-ISO value
           ELSE IF ~(Has(latest_entry, {"updated"}) /\ latest_entry.updated.iso) THEN unknown
           ELSE StatusRecord(name,
                  OperationalIf(Contains(RESOLVED_PHRASE, Lower(content))),
                  status_url, latest_entry.link)
      ELSE unknown

get_langsmith_status(doc) ==
  LET name == "Langsmith US"
      status_url == "https://status.smith.langchain.com"
      unknown == StatusRecord(name, "Unknown", status_url, NO_LINK)
      entries == Entries(doc)
  IN  IF FetchRaises(doc) THEN unknown
      ELSE IF entries # <<>>
      THEN LET latest_entry == entries[1] IN
           IF ~Has(latest_entry, {"title", "link", "description"}) THEN unknown
           ELSE StatusRecord(name,
                  OperationalIf(Contains(RESOLVED_PHRASE, Lower(latest_entry.description))),
                  status_url, latest_entry.link)
      ELSE unknown

\* get_perplexity_status without its test for "api outage"
get_perplexity_status_resolved_only(doc) ==
  LET name == "Perplexity API Status"
      status_url == "https://status.perplexity.com"
      \* the final return reads the local issue_link, which is bound only
      \* once latest_entry.link has been read
      unbound == Exception("UnboundLocalError",
                   "cannot access local variable 'issue_link' where it is not associated with a value")
      entries == Entries(doc)
  IN  IF FetchRaises(doc) THEN unbound
      ELSE IF entries # <<>>
      THEN LET latest_entry == entries[1] IN
           IF ~Has(latest_entry, {"title", "link"}) THEN unbound
           ELSE IF ~Has(latest_entry, {"description"})
           THEN StatusRecord(name, "Unknown", status_url, latest_entry.link)
           ELSE LET description_lower == Lower(latest_entry.description) IN
                StatusRecord(name,
                  OperationalIf(Contains(RESOLVED_PHRASE, description_lower)),
                  status_url, latest_entry.link)
      ELSE unbound

get_perplexity_status(doc) ==
  LET name == "Perplexity API Status"
      status_url == "https://status.perplexity.com"
      \* the final return reads the local issue_link, which is bound only
      \* once latest_entry.link has been read
      unbound == Exception("UnboundLocalError",
                   "cannot access local variable 'issue_link' where it is not associated with a value")
      entries == Entries(doc)
  IN  IF FetchRaises(doc) THEN unbound
      ELSE IF entries # <<>>
      THEN LET latest_entry == entries[1] IN
           IF ~Has(latest_entry, {"title", "link"}) THEN unbound
           ELSE IF ~Has(latest_entry, {"description"})
           THEN StatusRecord(name, "Unknown", status_url, latest_entry.link)
           ELSE LET description_lower == Lower(latest_entry.description) IN
                StatusRecord(name,
                  OperationalIf(Contains(RESOLVED_PHRASE, description_lower)
                                /\ ~Contains(API_OUTAGE_PHRASE, description_lower)),
                  status_url, latest_entry.link)
      ELSE unbound

\* get_anthropic_status reading a feed without entries as "no incident"
get_anthropic_status_no_entry_ok(doc) ==
  LET name == "Anthropic API Status"
      status_url == "https://status.anthropic.com"
      unknown == StatusRecord(name, "Unknown", status_url, NO_LINK)
      entries == Entries(doc)
  IN  IF FetchRaises(doc) THEN unknown
      ELSE IF entries # <<>>
      THEN LET latest_entry == entries[1] IN
           IF ~Has(latest_entry, {"title", "link", "description"}) THEN unknown
           ELSE StatusRecord(name,
                  OperationalIf(Contains(RESOLVED_PHRASE, Lower(latest_entry.description))),
                  status_url, latest_entry.link)
      ELSE StatusRecord(name, "Operational", status_url, NO_LINK)

get_anthropic_status(doc) ==
  LET name == "Anthropic API Status"
      status_url == "https://status.anthropic.com"
      unknown == StatusRecord(name, "Unknown", status_url, NO_LINK)
      entries == Entries(doc)
  IN  IF FetchRaises(doc) THEN unknown
      ELSE IF entries # <<>>
      THEN LET latest_entry == entries[1] IN
           IF ~Has(latest_entry, {"title", "link", "description"}) THEN unknown
           ELSE StatusRecord(name,
                  OperationalIf(Contains(RESOLVED_PHRASE, Lower(latest_entry.description))),
                  status_url, latest_entry.link)
      ELSE unknown

get_gcp_status(doc) ==
  LET name == "Google Cloud Platform Status (Global)"
      status_url == "https://status.cloud.google.com"
      unknown == StatusRecord(name, "Unknown", status_url, NO_LINK)
      entries == Entries(doc)
  IN  IF FetchRaises(doc) THEN unknown
      ELSE IF entries # <<>>
      THEN LET latest_entry == entries[1] IN
           IF ~Has(latest_entry, {"title"}) THEN unknown
           ELSE StatusRecord(name,
                  OperationalIf(Contains(GCP_PHRASE, Lower(latest_entry.title))),
                  status_url, NO_LINK)
      ELSE unknown

get_azure_status(doc) ==
  LET name == "Microsoft Azure Status US"
      status_url == "https://status.azure.com"
  IN  IF FetchRaises(doc) THEN StatusRecord(name, "Unknown", status_url, NO_LINK)
      ELSE IF Entries(doc) # <<>>
      THEN StatusRecord(name, "Disrupted", status_url, NO_LINK)
      ELSE StatusRecord(name, "Operational", status_url, NO_LINK)

get_aws_status(doc) ==
  LET name == "Amazon Web Service (AWS) Global Cloud Status"
      status_url == "https://health.aws.amazon.com/health/status"
  IN  IF FetchRaises(doc) THEN StatusRecord(name, "Unknown", status_url, NO_LINK)
      ELSE IF Entries(doc) # <<>>
      THEN StatusRecord(name, "Disrupted", status_url, NO_LINK)
      ELSE StatusRecord(name, "Operational", status_url, NO_LINK)

\* what awaiting the coroutine of feed fetcher f yields: the dict it returns
\* or the exception it raises
RunFetcher(f, doc) ==
  CASE f = "get_openai_status"     -> get_openai_status(doc)
    [] f = "get_deepseek_status"   -> get_deepseek_status(doc)
    [] f = "get_anthropic_status"  -> get_anthropic_status(doc)
    [] f = "get_perplexity_status" -> get_perplexity_status(doc)
    [] f = "get_langsmith_status"  -> get_langsmith_status(doc)
    [] f = "get_aws_status"        -> get_aws_status(doc)
    [] f = "get_gcp_status"        -> get_gcp_status(doc)
    [] f = "get_azure_status"      -> get_azure_status(doc)

\* what the Gemini status page holds once rendered: whether navigation
\* succeeds, whether <app-root> and div.status-large appear, and the texts of
\* the span children of div.status-large
PageOf(doc) ==
  CASE doc = "operational" ->
         [nav_ok |-> TRUE, app_root |-> TRUE, status_large |-> TRUE,
          spans |-> <<SpanIcon, SpanOperational>>]
    [] doc = "incident" ->
         [nav_ok |-> TRUE, app_root |-> TRUE, status_large |-> TRUE,
          spans |-> <<SpanIcon, SpanIncident>>]
    [] doc = "onespan" ->
         [nav_ok |-> TRUE, app_root |-> TRUE, status_large |-> TRUE,
          spans |-> <<SpanOperational>>]
    [] doc = "noanchor" ->
         [nav_ok |-> TRUE, app_root |-> TRUE, status_large |-> FALSE, spans |-> <<>>]
    [] doc = "noroot" ->
         [nav_ok |-> TRUE, app_root |-> FALSE, status_large |-> FALSE, spans |-> <<>>]
    [] OTHER ->
         [nav_ok |-> FALSE, app_root |-> FALSE, status_large |-> FALSE, spans |-> <<>>]

RECURSIVE LStrip(_)
LStrip(s) == IF s # <<>> /\ Head(s) = " " THEN LStrip(Tail(s)) ELSE s

RECURSIVE RStrip(_)
RStrip(s) == IF s # <<>> /\ s[Len(s)] = " " THEN RStrip(SubSeq(s, 1, Len(s) - 1)) ELSE s

\* s.strip()
Strip(s) == RStrip(LStrip(s))

\* the sources whose status page is read through a browser driver, each
\* with its own module-level driver handle
PageSources == {"gemini", "alicloud", "dify"}

\* creating a driver with uc.Chrome only
create_driver_no_fallback(uc_ok, wd_ok) ==
  IF uc_ok THEN "uc"
  ELSE "none"

\* creating a driver: uc.Chrome first, webdriver.Chrome when that raises,
\* no driver when that raises too
create_driver(uc_ok, wd_ok) ==
  IF uc_ok THEN "uc"
  ELSE IF wd_ok THEN "webdriver"
  ELSE "none"

\* the id of the next driver created for a source
FreshDriver(open) == Cardinality(open) + 1

\* how the loop over expandable_selectors can go: an element was clicked, no
\* element was displayed and enabled, or a lookup or the click raised
RevealOutcomes == {"clicked", "nothing", "raises"}

\* a reveal step whose exceptions reach the function's outer handler
RevealEscapesUncaught(reveal) ==
  reveal = "raises"

\* whether an exception of the reveal step leaves the step: the handler
\* inside the loop catches every Exception and continues with the next
\* selector
RevealEscapes(reveal) ==
  LET caught_in_loop == TRUE IN
  reveal = "raises" /\ ~caught_in_loop

\* get_gemini_status: driver.get and the wait for <app-root>
GeminiNavigationFails(doc) ==
  LET page == PageOf(doc) IN ~page.nav_ok \/ ~page.app_root

\* get_gemini_status: the final wait for div.status-large and the test of
\* its second span
GeminiFinalStep(doc) ==
  LET name == "Google AI Studio and Gemini API Status"
      status_url == "https://aistudio.google.com/status"
      page == PageOf(doc)
  IN  IF ~page.status_large
      THEN StatusRecord(name, "Unknown", status_url, NO_LINK)
      ELSE StatusRecord(name,
             OperationalIf(Len(page.spans) >= 2
                           /\ Contains(GEMINI_PHRASE, Lower(Strip(page.spans[2])))),
             status_url, NO_LINK)

\* get_gemini_status reading a stale page from any driver but the first
get_gemini_status_first_driver_only(driver, doc, reveal) ==
  LET name == "Google AI Studio and Gemini API Status"
      status_url == "https://aistudio.google.com/status"
      unknown == StatusRecord(name, "Unknown", status_url, NO_LINK)
  IN  IF driver = None THEN unknown
      ELSE IF GeminiNavigationFails(doc) THEN unknown
      ELSE IF RevealEscapes(reveal) THEN unknown
      ELSE IF driver # Some(1) THEN StatusRecord(name, "Disrupted", status_url, NO_LINK)
      ELSE GeminiFinalStep(doc)

\* get_gemini_status from `if driver is not None` to its return
get_gemini_status(driver, doc, reveal) ==
  LET name == "Google AI Studio and Gemini API Status"
      status_url == "https://aistudio.google.com/status"
      unknown == StatusRecord(name, "Unknown", status_url, NO_LINK)
  IN  IF driver = None THEN unknown
      ELSE IF GeminiNavigationFails(doc) THEN unknown
      ELSE IF RevealEscapes(reveal) THEN unknown
      ELSE GeminiFinalStep(doc)

\* whether uc.Chrome / webdriver.Chrome can succeed: always open to fail,
\* and failing once MaxDrivers drivers are open
CreationInputs(open) ==
  IF Cardinality(open) < MaxDrivers THEN BOOLEAN ELSE {FALSE}

\* the acquisition keeping a handle whose probe failed
AcquireDriverKeepsDead(handle, open, probe_ok, uc_ok, wd_ok) ==
  LET probed == handle
      made   == create_driver(uc_ok, wd_ok)
      id     == FreshDriver(open)
  IN  IF probed # None THEN [handle |-> probed, open |-> open, made |-> "reused"]
      ELSE IF made = "none" THEN [handle |-> None, open |-> open, made |-> made]
      ELSE [handle |-> Some(id), open |-> open \cup {id}, made |-> made]

\* the probe of an existing handle, then the creation of a driver when the
\* handle is None: the handle and the set of open drivers afterwards, and
\* how the driver was obtained
AcquireDriver(handle, open, probe_ok, uc_ok, wd_ok) ==
  LET probed == IF handle # None /\ ~probe_ok THEN None ELSE handle
      made   == create_driver(uc_ok, wd_ok)
      id     == FreshDriver(open)
  IN  IF probed # None THEN [handle |-> probed, open |-> open, made |-> "reused"]
      ELSE IF made = "none" THEN [handle |-> None, open |-> open, made |-> made]
      ELSE [handle |-> Some(id), open |-> open \cup {id}, made |-> made]

\* pages the Dify status site may serve: the h2 texts inside
\* div.page-status.status-none
DifyPageDocs == {"operational", "incident", "noh2", "noanchor", "noroot", "navfail"}

DifyPageOf(doc) ==
  CASE doc = "operational" ->
         [nav_ok |-> TRUE, app_root |-> TRUE, page_status |-> TRUE,
          h2_elements |-> <<SpanOperational>>]
    [] doc = "incident" ->
         [nav_ok |-> TRUE, app_root |-> TRUE, page_status |-> TRUE,
          h2_elements |-> <<HeadingOutage>>]
    [] doc = "noh2" ->
         [nav_ok |-> TRUE, app_root |-> TRUE, page_status |-> TRUE, h2_elements |-> <<>>]
    [] doc = "noanchor" ->
         [nav_ok |-> TRUE, app_root |-> TRUE, page_status |-> FALSE, h2_elements |-> <<>>]
    [] doc = "noroot" ->
         [nav_ok |-> TRUE, app_root |-> FALSE, page_status |-> FALSE, h2_elements |-> <<>>]
    [] OTHER ->
         [nav_ok |-> FALSE, app_root |-> FALSE, page_status |-> FALSE, h2_elements |-> <<>>]

\* get_dify_status from `if driver is not None` to its return
get_dify_status(driver, doc, reveal) ==
  LET name == "Dify.AI API Status"
      status_url == "https://dify.statuspage.io/"
      unknown == StatusRecord(name, "Unknown", status_url, NO_LINK)
      page == DifyPageOf(doc)
  IN  IF driver = None THEN unknown
      ELSE IF ~page.nav_ok \/ ~page.app_root THEN unknown
      ELSE IF RevealEscapes(reveal) THEN unknown
      ELSE IF ~page.page_status THEN unknown
      ELSE StatusRecord(name,
             OperationalIf(\E i \in 1..Len(page.h2_elements) :
                             Contains(GEMINI_PHRASE, Lower(Strip(page.h2_elements[i])))),
             status_url, NO_LINK)

\* pages the Alibaba Cloud status site may serve: the text of the element of
\* class cms-title-noEvent-child
AlicloudPageDocs == {"operational", "incident", "noanchor", "noroot", "navfail"}

AlicloudPageOf(doc) ==
  CASE doc = "operational" ->
         [nav_ok |-> TRUE, container |-> TRUE, no_event |-> TRUE, text |-> NoticeNormal]
    [] doc = "incident" ->
         [nav_ok |-> TRUE, container |-> TRUE, no_event |-> TRUE, text |-> NoticeEvents]
    [] doc = "noanchor" ->
         [nav_ok |-> TRUE, container |-> TRUE, no_event |-> FALSE, text |-> <<>>]
    [] doc = "noroot" ->
         [nav_ok |-> TRUE, container |-> FALSE, no_event |-> FALSE, text |-> <<>>]
    [] OTHER ->
         [nav_ok |-> FALSE, container |-> FALSE, no_event |-> FALSE, text |-> <<>>]

\* get_alicloud_status from `if driver is not None` to its return
get_alicloud_status(driver, doc, reveal) ==
  LET name == "Alibaba Cloud Health Status"
      status_url == "https://status.alibabacloud.com"
      unknown == StatusRecord(name, "Unknown", status_url, NO_LINK)
      page == AlicloudPageOf(doc)
  IN  IF driver = None THEN unknown
      ELSE IF ~page.nav_ok \/ ~page.container THEN unknown
      ELSE IF RevealEscapes(reveal) THEN unknown
      ELSE IF ~page.no_event THEN unknown
      ELSE StatusRecord(name,
             OperationalIf(Contains(ALICLOUD_PHRASE, Lower(Strip(page.text)))),
             status_url, NO_LINK)

\* what llamaindex.statuspage.io may answer: the texts of its
\* <p class="color-secondary"> elements
LlamaIndexDocs == {"operational", "incident", "noanchor", "http_error", "unreachable"}

LlamaIndexPageOf(doc) ==
  CASE doc = "operational" -> [raises |-> FALSE, color_secondary |-> <<ParaIncident, ParaNoIncidents>>]
    [] doc = "incident"    -> [raises |-> FALSE, color_secondary |-> <<ParaIncident>>]
    [] doc = "noanchor"    -> [raises |-> FALSE, color_secondary |-> <<>>]
    [] OTHER               -> [raises |-> TRUE, color_secondary |-> <<>>]

\* get_llamaindex_status answering Unknown for a page without any
\* <p class="color-secondary">
get_llamaindex_status_anchor_required(doc) ==
  LET name == "LlamaIndex"
      status_url == "https://llamaindex.statuspage.io/"
      unknown == StatusRecord(name, "Unknown", status_url, NO_LINK)
      page == LlamaIndexPageOf(doc)
  IN  IF page.raises THEN unknown
      ELSE IF page.color_secondary = <<>> THEN unknown
      ELSE StatusRecord(name,
             OperationalIf(\E i \in 1..Len(page.color_secondary) :
                             Contains(LLAMAINDEX_PHRASE, Lower(Strip(page.color_secondary[i])))),
             status_url, NO_LINK)

get_llamaindex_status(doc) ==
  LET name == "LlamaIndex"
      status_url == "https://llamaindex.statuspage.io/"
      unknown == StatusRecord(name, "Unknown", status_url, NO_LINK)
      page == LlamaIndexPageOf(doc)
  IN  IF page.raises THEN unknown
      ELSE StatusRecord(name,
             OperationalIf(\E i \in 1..Len(page.color_secondary) :
                             Contains(LLAMAINDEX_PHRASE, Lower(Strip(page.color_secondary[i])))),
             status_url, NO_LINK)

\* the status function of each page source, its documents and its return
\* value
PageFunction(source) ==
  CASE source = "gemini"   -> "get_gemini_status"
    [] source = "alicloud" -> "get_alicloud_status"
    [] source = "dify"     -> "get_dify_status"

PageCallDocs(source) ==
  CASE source = "gemini"   -> PageDocs \ {"hang"}
    [] source = "alicloud" -> AlicloudPageDocs
    [] source = "dify"     -> DifyPageDocs

PageStatus(source, driver, doc, reveal) ==
  CASE source = "gemini"   -> get_gemini_status(driver, doc, reveal)
    [] source = "alicloud" -> get_alicloud_status(driver, doc, reveal)
    [] source = "dify"     -> get_dify_status(driver, doc, reveal)

\* whether the page lets the call get as far as the reveal step
ReachesReveal(source, doc) ==
  CASE source = "gemini"   -> ~GeminiNavigationFails(doc)
    [] source = "alicloud" -> AlicloudPageOf(doc).nav_ok /\ AlicloudPageOf(doc).container
    [] source = "dify"     -> DifyPageOf(doc).nav_ok /\ DifyPageOf(doc).app_root

(* ---------------------------------------------------------------------- *)
(* app_main.py: the coordinator and the session cache                     *)
(* ---------------------------------------------------------------------- *)

\* browser sessions connected to the Streamlit server; each has its own
\* st.session_state and its own script thread
Sessions == {"s1", "s2"}

\* the amounts by which the wall clock advances between two steps
TickSteps == {30, 86400}

SecondsPerDay == 86400

\* config.py: CACHE_TTL
CACHE_TTL == 60

CacheSeconds == 60

\* service_names with its last two names exchanged
service_names_swapped ==
  <<"openai", "deepseek", "gemini", "anthropic", "perplexity", "langsmith",
    "aws", "azure", "gcp">>

\* service_names one name short
service_names_short ==
  <<"openai", "deepseek", "gemini", "anthropic", "perplexity", "langsmith",
    "aws", "gcp">>

service_names ==
  <<"openai", "deepseek", "gemini", "anthropic", "perplexity", "langsmith",
    "aws", "gcp", "azure">>

\* the keys main() looks up in all_statuses
RenderedIds ==
  {"openai", "deepseek", "gemini", "anthropic", "perplexity", "langsmith",
   "aws", "gcp", "azure"}

\* str.title() on the service names
Title(service_name) ==
  CASE service_name = "openai"     -> "Openai"
    [] service_name = "deepseek"   -> "Deepseek"
    [] service_name = "gemini"     -> "Gemini"
    [] service_name = "anthropic"  -> "Anthropic"
    [] service_name = "perplexity" -> "Perplexity"
    [] service_name = "langsmith"  -> "Langsmith"
    [] service_name = "aws"        -> "Aws"
    [] service_name = "gcp"        -> "Gcp"
    [] service_name = "azure"      -> "Azure"
    [] OTHER                       -> service_name

VARIABLES
  now,                    \* wall clock, in seconds
  ticks,                  \* clock advances so far
  world,                  \* document each provider currently serves
  chrome_driver_gemini,   \* helpers._chrome_driver_gemini
  chrome_driver_alicloud, \* helpers._chrome_driver_alicloud
  chrome_driver_dify,     \* helpers._chrome_driver_dify
  http_session,           \* helpers._http_session
  drivers,                \* per page source: the drivers created and not quit
  call,                   \* the last direct call of a status function
  pc,                     \* per session: position of its script thread
  cached_statuses,        \* st.session_state.cached_statuses
  cache_timestamp,        \* st.session_state.cache_timestamp
  last_refresh,           \* st.session_state.last_refresh
  current_time,           \* main(): current_time read at line 228
  should_refresh,         \* main(): should_refresh
  next_task,              \* event loop: index of the next gather task to run
  results,                \* results of the finished gather tasks, by position
  gem,                    \* the to_thread worker running get_gemini_status
  all_statuses,           \* main(): all_statuses
  status_text,            \* fetch_all_statuses: what status_text shows
  screen                  \* what the last script run left in the browser

vars ==
  <<now, ticks, world, chrome_driver_gemini, chrome_driver_alicloud,
    chrome_driver_dify, http_session, drivers, call, pc, cached_statuses,
    cache_timestamp,
    last_refresh, current_time, should_refresh, next_task, results, gem,
    all_statuses, status_text, screen>>

\* what only the direct calls of the status functions change
helper_vars == <<chrome_driver_alicloud, chrome_driver_dify, call>>

session_vars ==
  <<pc, cached_statuses, cache_timestamp, last_refresh, current_time,
    should_refresh, next_task, results, gem, all_statuses, status_text, screen>>

EmptyDict == <<>>

GemIdle == [pc |-> "idle", driver |-> None]

\* isinstance(result, Exception)
IsException(result) == "exception" \in DOMAIN result

\* timedelta.seconds: the seconds field of the normalised timedelta, which
\* leaves out whole days
TimedeltaSeconds(delta) == delta % SecondsPerDay

\* a cache decision that refreshes whenever any time has passed
ShouldRefreshAlways(cached, timestamp, t) ==
  \/ cached = None
  \/ timestamp = None
  \/ TimedeltaSeconds(t - timestamp[1]) > 0

\* main(): should_refresh
ShouldRefresh(cached, timestamp, t) ==
  \/ cached = None
  \/ timestamp = None
  \/ TimedeltaSeconds(t - timestamp[1]) > CacheSeconds

\* a wait that ends with the first finished awaitable
GatherDoneFirst(rs) == DOMAIN rs # {}

\* asyncio.gather(..., return_exceptions=True) is done once every awaitable
\* has a result or an exception
GatherDone(rs) == DOMAIN rs = 1..Len(Fetchers)

\* a substitute record that reports the failed source as disrupted
ErrorRecordDisrupted(service_name, result) ==
  [name        |-> Title(service_name) \o " Status",
   status      |-> "Disrupted",
   status_url  |-> "#",
   last_update |-> "N/A",
   title       |-> "Error",
   description |-> "Error: " \o result.message]

\* the record substituted for a task that raised
ErrorRecord(service_name, result) ==
  [name        |-> Title(service_name) \o " Status",
   status      |-> "Unknown",
   status_url  |-> "#",
   last_update |-> "N/A",
   title       |-> "Error",
   description |-> "Error: " \o result.message]

\* no status function puts a datetime in its dict, so every value is copied
Serialize(result) == [key \in DOMAIN result |-> result[key]]

\* fetch_all_statuses: the loop over zip(service_names, results)
StatusResults(rs) ==
  LET idx == {i \in 1..Len(service_names) : i \in DOMAIN rs} IN
  [service_name \in {service_names[i] : i \in idx} |->
     LET i == CHOOSE j \in idx : service_names[j] = service_name IN
     IF IsException(rs[i]) THEN ErrorRecord(service_name, rs[i])
     ELSE Serialize(rs[i])]

\* fetch_all_statuses: what it returns; ui_raises says a Streamlit progress
\* call inside the try block raised, which the outer handler turns into {}
FetchAllStatuses(rs, ui_raises) ==
  IF ui_raises THEN EmptyDict ELSE StatusResults(rs)

\* create_status_card: the card's class, the fields it prints and, for a
\* disrupted source shown with details, the issue link; reading a key the
\* record lacks raises KeyError
create_status_card(service_data, include_details) ==
  IF ~({"status", "name"} \subseteq DOMAIN service_data)
  THEN [error |-> "KeyError"]
  ELSE LET status_class ==
             CASE service_data["status"] = "Unknown"     -> "status-unknown"
               [] service_data["status"] = "Operational" -> "status-operational"
               [] OTHER                                  -> "status-issues"
           status_url ==
             IF "status_url" \in DOMAIN service_data
             THEN service_data["status_url"] ELSE "#"
           issue_link ==
             IF "issue_link" \in DOMAIN service_data
             THEN service_data["issue_link"] ELSE "None"
       IN  [status_class |-> status_class,
            name         |-> service_data["name"],
            status       |-> service_data["status"],
            status_url   |-> status_url,
            details      |-> IF status_class = "status-issues" /\ include_details
                             THEN Some(issue_link) ELSE None]

\* the cards main() shows with include_details=False
CloudIds == {"aws", "gcp", "azure"}

\* main(): the nine lookups in all_statuses, then one card per source
RenderCards(statuses) ==
  IF ~(RenderedIds \subseteq DOMAIN statuses)
  THEN [error |-> "KeyError"]
  ELSE [id \in RenderedIds |-> create_status_card(statuses[id], id \notin CloudIds)]

\* whether the render step ran to its end
Rendered(cards) ==
  /\ "error" \notin DOMAIN cards
  /\ \A id \in DOMAIN cards : "error" \notin DOMAIN cards[id]

Init ==
  /\ now = 0
  /\ ticks = 0
  /\ world \in WorldsUpTo(MaxAbnormal)
  /\ chrome_driver_gemini = None
  /\ chrome_driver_alicloud = None
  /\ chrome_driver_dify = None
  /\ http_session = None
  /\ drivers = [source \in PageSources |-> {}]
  /\ call = None
  /\ pc = [s \in Sessions |-> "idle"]
  /\ cached_statuses = [s \in Sessions |-> None]
  /\ cache_timestamp = [s \in Sessions |-> None]
  /\ last_refresh = [s \in Sessions |-> None]
  /\ current_time = [s \in Sessions |-> None]
  /\ should_refresh = [s \in Sessions |-> FALSE]
  /\ next_task = [s \in Sessions |-> 1]
  /\ results = [s \in Sessions |-> <<>>]
  /\ gem = [s \in Sessions |-> GemIdle]
  /\ all_statuses = [s \in Sessions |-> None]
  /\ status_text = [s \in Sessions |-> "none"]
  /\ screen = [s \in Sessions |-> "none"]

\* the clock advances
Tick ==
  /\ ticks < MaxTicks
  /\ \E d \in TickSteps : now' = now + d
  /\ ticks' = ticks + 1
  /\ UNCHANGED <<helper_vars, http_session, world, chrome_driver_gemini, drivers, session_vars>>

\* a script run of session s starts (page load or rerun) and reaches the
\* cache decision of main()
RunScript(s) ==
  /\ pc[s] \in {"idle", "rerun"}
  /\ current_time' = [current_time EXCEPT ![s] = Some(now)]
  /\ LET refresh == ShouldRefresh(cached_statuses[s], cache_timestamp[s], now) IN
     /\ should_refresh' = [should_refresh EXCEPT ![s] = refresh]
     /\ IF refresh
        THEN /\ pc' = [pc EXCEPT ![s] = "gather"]
             /\ all_statuses' = [all_statuses EXCEPT ![s] = None]
             /\ status_text' = [status_text EXCEPT ![s] = "started"]
        ELSE /\ pc' = [pc EXCEPT ![s] = "display"]
             /\ all_statuses' = [all_statuses EXCEPT ![s] = cached_statuses[s]]
             /\ status_text' = [status_text EXCEPT ![s] = "none"]
  /\ next_task' = [next_task EXCEPT ![s] = 1]
  /\ results' = [results EXCEPT ![s] = <<>>]
  /\ UNCHANGED <<helper_vars, http_session, now, ticks, world, chrome_driver_gemini, drivers, cached_statuses,
                 cache_timestamp, last_refresh, gem, screen>>

\* the event loop runs the next gather task.  The coroutines of the feed
\* functions contain no await, so each runs to its return in one piece; the
\* to_thread task hands get_gemini_status to a worker thread and suspends.
RunTask(s) ==
  /\ pc[s] = "gather"
  /\ next_task[s] <= Len(Fetchers)
  /\ LET i == next_task[s]
         f == Fetchers[i]
     IN  IF f = "get_gemini_status"
         THEN /\ gem' = [gem EXCEPT ![s] = [pc |-> "check", driver |-> None]]
              /\ UNCHANGED <<results, http_session>>
         ELSE /\ ~Hangs(world[f])
              /\ results' = [results EXCEPT ![s] = (i :> RunFetcher(f, world[f])) @@ @]
              /\ http_session' = SessionAfter(f, http_session)
              /\ UNCHANGED gem
  /\ next_task' = [next_task EXCEPT ![s] = @ + 1]
  /\ UNCHANGED <<helper_vars, now, ticks, world, chrome_driver_gemini, drivers, pc, cached_statuses,
                 cache_timestamp, last_refresh, current_time, should_refresh,
                 all_statuses, status_text, screen>>

\* get_gemini_status: `if _chrome_driver_gemini is not None`
GeminiCheck(s) ==
  /\ gem[s].pc = "check"
  /\ gem' = [gem EXCEPT ![s].pc =
               IF chrome_driver_gemini # None THEN "probe" ELSE "recheck"]
  /\ UNCHANGED <<helper_vars, http_session, now, ticks, world, chrome_driver_gemini, drivers, pc, cached_statuses,
                 cache_timestamp, last_refresh, current_time, should_refresh,
                 next_task, results, all_statuses, status_text, screen>>

\* get_gemini_status: the liveness probe _chrome_driver_gemini.current_url;
\* it raises when the browser is gone, and also when the handle has been
\* set to None in the meantime
GeminiProbe(s) ==
  /\ gem[s].pc = "probe"
  /\ \E alive \in BOOLEAN :
       IF alive /\ chrome_driver_gemini # None
       THEN /\ gem' = [gem EXCEPT ![s] = [pc |-> "recheck", driver |-> chrome_driver_gemini]]
            /\ UNCHANGED chrome_driver_gemini
       ELSE /\ gem' = [gem EXCEPT ![s].pc = "recheck"]
            /\ chrome_driver_gemini' = None
  /\ UNCHANGED <<helper_vars, http_session, now, ticks, world, drivers, pc, cached_statuses, cache_timestamp,
                 last_refresh, current_time, should_refresh, next_task, results,
                 all_statuses, status_text, screen>>

\* get_gemini_status: `if _chrome_driver_gemini is None`
GeminiRecheck(s) ==
  /\ gem[s].pc = "recheck"
  /\ gem' = [gem EXCEPT ![s].pc =
               IF chrome_driver_gemini = None THEN "create" ELSE "bind"]
  /\ UNCHANGED <<helper_vars, http_session, now, ticks, world, chrome_driver_gemini, drivers, pc, cached_statuses,
                 cache_timestamp, last_refresh, current_time, should_refresh,
                 next_task, results, all_statuses, status_text, screen>>

\* get_gemini_status: uc.Chrome, then webdriver.Chrome when it raises, then
\* None when that raises too; the driver the handle held before is not quit
GeminiCreate(s) ==
  /\ gem[s].pc = "create"
  /\ \E uc_ok \in CreationInputs(drivers["gemini"]),
        wd_ok \in CreationInputs(drivers["gemini"]) :
       LET made == create_driver(uc_ok, wd_ok)
           id   == FreshDriver(drivers["gemini"])
       IN  IF made = "none"
           THEN /\ chrome_driver_gemini' = None
                /\ UNCHANGED drivers
           ELSE /\ chrome_driver_gemini' = Some(id)
                /\ drivers' = [drivers EXCEPT !["gemini"] = @ \cup {id}]
  /\ gem' = [gem EXCEPT ![s].pc = "bind"]
  /\ UNCHANGED <<helper_vars, http_session, now, ticks, world, pc, cached_statuses, cache_timestamp,
                 last_refresh, current_time, should_refresh, next_task, results,
                 all_statuses, status_text, screen>>

\* get_gemini_status: driver = _chrome_driver_gemini
GeminiBind(s) ==
  /\ gem[s].pc = "bind"
  /\ gem' = [gem EXCEPT ![s] = [pc |-> "page", driver |-> chrome_driver_gemini]]
  /\ UNCHANGED <<helper_vars, http_session, now, ticks, world, chrome_driver_gemini, drivers, pc, cached_statuses,
                 cache_timestamp, last_refresh, current_time, should_refresh,
                 next_task, all_statuses, status_text, screen, results>>

\* the worker's return value becomes the result of the third gather task
GeminiReturn(s, reveal) ==
  /\ results' = [results EXCEPT ![s] =
                   (3 :> get_gemini_status(gem[s].driver, world["get_gemini_status"],
                                           reveal)) @@ @]
  /\ gem' = [gem EXCEPT ![s] = GemIdle]

\* get_gemini_status: `if driver is not None`, driver.get(status_url) and
\* the wait for <app-root>
GeminiNavigate(s) ==
  /\ gem[s].pc = "page"
  /\ gem[s].driver # None => ~Hangs(world["get_gemini_status"])
  /\ IF gem[s].driver = None \/ GeminiNavigationFails(world["get_gemini_status"])
     THEN GeminiReturn(s, "nothing")
     ELSE /\ gem' = [gem EXCEPT ![s].pc = "reveal"]
          /\ UNCHANGED results
  /\ UNCHANGED <<helper_vars, http_session, now, ticks, world, chrome_driver_gemini, drivers, pc, cached_statuses,
                 cache_timestamp, last_refresh, current_time, should_refresh,
                 next_task, all_statuses, status_text, screen>>

\* get_gemini_status: the loop over expandable_selectors
GeminiReveal(s) ==
  /\ gem[s].pc = "reveal"
  /\ \E reveal \in RevealOutcomes :
       IF RevealEscapes(reveal)
       THEN GeminiReturn(s, reveal)
       ELSE /\ gem' = [gem EXCEPT ![s].pc = "read"]
            /\ UNCHANGED results
  /\ UNCHANGED <<helper_vars, http_session, now, ticks, world, chrome_driver_gemini, drivers, pc, cached_statuses,
                 cache_timestamp, last_refresh, current_time, should_refresh,
                 next_task, all_statuses, status_text, screen>>

\* get_gemini_status: the wait for div.status-large, the reading of its
\* spans and the return
GeminiRead(s) ==
  /\ gem[s].pc = "read"
  /\ GeminiReturn(s, "nothing")
  /\ UNCHANGED <<helper_vars, http_session, now, ticks, world, chrome_driver_gemini, drivers, pc, cached_statuses,
                 cache_timestamp, last_refresh, current_time, should_refresh,
                 next_task, all_statuses, status_text, screen>>

\* a store that records the capture time of a snapshot with entries only
AssembleUnstamped(s) ==
  /\ pc[s] = "gather"
  /\ GatherDone(results[s])
  /\ \E ui_raises \in BOOLEAN :
       LET fetched == FetchAllStatuses(results[s], ui_raises) IN
       /\ all_statuses' = [all_statuses EXCEPT ![s] = Some(fetched)]
       /\ cached_statuses' = [cached_statuses EXCEPT ![s] = Some(fetched)]
       /\ status_text' = [status_text EXCEPT ![s] = IF ui_raises THEN "error" ELSE "ready"]
       /\ cache_timestamp' = [cache_timestamp EXCEPT ![s] =
                                IF fetched = EmptyDict THEN @ ELSE current_time[s]]
  /\ last_refresh' = [last_refresh EXCEPT ![s] = current_time[s]]
  /\ pc' = [pc EXCEPT ![s] = "display"]
  /\ UNCHANGED <<helper_vars, http_session, now, ticks, world, chrome_driver_gemini, drivers, current_time,
                 should_refresh, next_task, results, gem, screen>>

\* gather is done: fetch_all_statuses builds and returns its dict, and main()
\* stores it with the time read before the cycle
Assemble(s) ==
  /\ pc[s] = "gather"
  /\ GatherDone(results[s])
  /\ \E ui_raises \in BOOLEAN :
       LET fetched == FetchAllStatuses(results[s], ui_raises) IN
       /\ all_statuses' = [all_statuses EXCEPT ![s] = Some(fetched)]
       /\ cached_statuses' = [cached_statuses EXCEPT ![s] = Some(fetched)]
       /\ status_text' = [status_text EXCEPT ![s] = IF ui_raises THEN "error" ELSE "ready"]
  /\ cache_timestamp' = [cache_timestamp EXCEPT ![s] = current_time[s]]
  /\ last_refresh' = [last_refresh EXCEPT ![s] = current_time[s]]
  /\ pc' = [pc EXCEPT ![s] = "display"]
  /\ UNCHANGED <<helper_vars, http_session, now, ticks, world, chrome_driver_gemini, drivers, current_time,
                 should_refresh, next_task, results, gem, screen>>

\* main(): the nine lookups and the cards; the script run ends
Display(s) ==
  /\ pc[s] = "display"
  /\ screen' = [screen EXCEPT ![s] =
                  IF Rendered(RenderCards(all_statuses[s][1]))
                  THEN "cards" ELSE "KeyError"]
  /\ pc' = [pc EXCEPT ![s] = "idle"]
  /\ current_time' = [current_time EXCEPT ![s] = None]
  /\ should_refresh' = [should_refresh EXCEPT ![s] = FALSE]
  /\ next_task' = [next_task EXCEPT ![s] = 1]
  /\ results' = [results EXCEPT ![s] = <<>>]
  /\ all_statuses' = [all_statuses EXCEPT ![s] = None]
  /\ UNCHANGED <<helper_vars, http_session, now, ticks, world, chrome_driver_gemini, drivers, cached_statuses,
                 cache_timestamp, last_refresh, gem, status_text>>

\* a "Refresh Now" that resets the displayed refresh time only
ClickRefreshKeepsCache(s) ==
  /\ pc[s] = "idle"
  /\ screen[s] # "none"
  /\ last_refresh' = [last_refresh EXCEPT ![s] = None]
  /\ pc' = [pc EXCEPT ![s] = "rerun"]
  /\ UNCHANGED <<helper_vars, http_session, now, ticks, world, chrome_driver_gemini, drivers, current_time,
                 should_refresh, next_task, results, gem, all_statuses, status_text, screen,
                 cached_statuses, cache_timestamp>>

\* the user clicks "Refresh Now": the cache is cleared and st.rerun() starts
\* the script again
ClickRefresh(s) ==
  /\ pc[s] = "idle"
  /\ screen[s] # "none"
  /\ cached_statuses' = [cached_statuses EXCEPT ![s] = None]
  /\ cache_timestamp' = [cache_timestamp EXCEPT ![s] = None]
  /\ last_refresh' = [last_refresh EXCEPT ![s] = None]
  /\ pc' = [pc EXCEPT ![s] = "rerun"]
  /\ UNCHANGED <<helper_vars, http_session, now, ticks, world, chrome_driver_gemini, drivers, current_time,
                 should_refresh, next_task, results, gem, all_statuses, status_text, screen>>

\* a status function for a feed is called on its own and returns
CallFeedFunction ==
  /\ \E f \in FeedFetchers, doc \in CallFeedDocs :
       /\ http_session' = SessionAfter(f, http_session)
       /\ call' = Some([fn |-> f, doc |-> doc,
                        request |-> FeedRequest(f, SessionAfter(f, http_session)),
                        ret |-> RunFetcher(f, doc)])
  /\ UNCHANGED <<now, ticks, world, chrome_driver_gemini, chrome_driver_alicloud,
                 chrome_driver_dify, drivers, session_vars>>

\* the four module-level resources, in the order cleanup_resources visits them
TeardownOrder == <<"gemini", "alicloud", "dify", "http_session">>

Resources == {TeardownOrder[i] : i \in DOMAIN TeardownOrder}

\* one block of cleanup_resources without its except clause: a raising
\* quit() or close() leaves the function after the finally clause
teardown_block_uncaught(raises_here) ==
  [handle |-> None, invoked |-> TRUE, propagates |-> raises_here]

\* one block of cleanup_resources for a handle that is not None: quit() or
\* close() is called, an exception is logged, the handle is set to None
teardown_block(raises_here) ==
  [handle |-> None, invoked |-> TRUE, propagates |-> FALSE]

\* cleanup_resources over the blocks that are left: the handles afterwards
\* and the resources whose quit() or close() was called, in order
RECURSIVE Teardown(_, _, _, _)
Teardown(order, handles, raises, invoked) ==
  IF order = <<>> THEN [handles |-> handles, invoked |-> invoked]
  ELSE LET r == Head(order) IN
       IF handles[r] = None THEN Teardown(Tail(order), handles, raises, invoked)
       ELSE LET block == teardown_block(r \in raises)
                after == [handles EXCEPT ![r] = block.handle]
                calls == IF block.invoked THEN Append(invoked, r) ELSE invoked
            IN  IF block.propagates THEN [handles |-> after, invoked |-> calls]
                ELSE Teardown(Tail(order), after, raises, calls)

cleanup_resources(handles, raises) == Teardown(TeardownOrder, handles, raises, <<>>)

\* the module-level driver handle of a page source
Handle(source) ==
  CASE source = "gemini"   -> chrome_driver_gemini
    [] source = "alicloud" -> chrome_driver_alicloud
    [] source = "dify"     -> chrome_driver_dify

\* the status function of a page source is called on its own and returns:
\* probe, creation, navigation, reveal step and final step in one piece
CallPageFunction(source) ==
  /\ \E probe_ok \in (IF Handle(source) = None THEN {TRUE} ELSE BOOLEAN) :
     \E uc_ok \in (IF Handle(source) # None /\ probe_ok THEN {TRUE}
                   ELSE CreationInputs(drivers[source])) :
     \E wd_ok \in (IF uc_ok THEN {TRUE} ELSE CreationInputs(drivers[source])) :
     \E doc \in PageCallDocs(source) :
       LET acq == AcquireDriver(Handle(source), drivers[source], probe_ok, uc_ok, wd_ok) IN
       \E reveal \in (IF acq.handle # None /\ ReachesReveal(source, doc)
                      THEN RevealOutcomes ELSE {"nothing"}) :
         /\ chrome_driver_gemini' =
              IF source = "gemini" THEN acq.handle ELSE chrome_driver_gemini
         /\ chrome_driver_alicloud' =
              IF source = "alicloud" THEN acq.handle ELSE chrome_driver_alicloud
         /\ chrome_driver_dify' =
              IF source = "dify" THEN acq.handle ELSE chrome_driver_dify
         /\ drivers' = [drivers EXCEPT ![source] = acq.open]
         /\ call' = Some([fn       |-> PageFunction(source),
                          doc      |-> doc,
                          probe_ok |-> probe_ok,
                          uc_ok    |-> uc_ok,
                          wd_ok    |-> wd_ok,
                          made     |-> acq.made,
                          reveal   |-> reveal,
                          ret      |-> PageStatus(source, acq.handle, doc, reveal)])
  /\ UNCHANGED <<now, ticks, world, http_session, session_vars>>

\* the four module-level handles
Handles ==
  [r \in Resources |-> IF r = "http_session" THEN http_session ELSE Handle(r)]

\* cleanup_resources is called and returns; quit() and close() may raise; a
\* driver whose quit() returned is closed
CleanupResources ==
  /\ \E raises \in SUBSET {r \in Resources : Handles[r] # None} :
       LET before == Handles
           done   == cleanup_resources(before, raises)
           quit(source) == IF /\ \E i \in DOMAIN done.invoked : done.invoked[i] = source
                              /\ source \notin raises
                           THEN {before[source][1]} ELSE {}
       IN  /\ chrome_driver_gemini' = done.handles["gemini"]
           /\ chrome_driver_alicloud' = done.handles["alicloud"]
           /\ chrome_driver_dify' = done.handles["dify"]
           /\ http_session' = done.handles["http_session"]
           /\ drivers' = [source \in PageSources |-> drivers[source] \ quit(source)]
           /\ call' = Some([fn      |-> "cleanup_resources",
                            before  |-> before,
                            raises  |-> raises,
                            invoked |-> done.invoked])
  /\ UNCHANGED <<now, ticks, world, session_vars>>

\* get_llamaindex_status is called on its own and returns
CallLlamaIndex ==
  /\ \E doc \in LlamaIndexDocs :
       call' = Some([fn |-> "get_llamaindex_status", doc |-> doc,
                     ret |-> get_llamaindex_status(doc)])
  /\ http_session' = SessionAfter("get_llamaindex_status", http_session)
  /\ UNCHANGED <<now, ticks, world, chrome_driver_gemini, chrome_driver_alicloud,
                 chrome_driver_dify, drivers, session_vars>>

GeminiStep(s) ==
  \/ GeminiCheck(s)
  \/ GeminiProbe(s)
  \/ GeminiRecheck(s)
  \/ GeminiCreate(s)
  \/ GeminiBind(s)
  \/ GeminiNavigate(s)
  \/ GeminiReveal(s)
  \/ GeminiRead(s)

SessionStep(s) ==
  \/ RunScript(s)
  \/ RunTask(s)
  \/ GeminiStep(s)
  \/ Assemble(s)
  \/ Display(s)
  \/ ClickRefresh(s)

\* one dashboard session, time standing still
Next == SessionStep("s1")

Spec == Init /\ [][Next]_vars

\* one dashboard session and the clock
NextTimed == SessionStep("s1") \/ Tick

InitNominal ==
  /\ Init
  /\ world \in WorldsUpTo(0)

TimedSpec == InitNominal /\ [][NextTimed]_vars

\* two dashboard sessions of the same server process
NextShared == \E s \in Sessions : SessionStep(s)

SharedSpec == InitNominal /\ [][NextShared]_vars

\* one dashboard session and the clock, the Gemini page being any page that
\* answers: cycles repeat over the same documents
InitRepeat ==
  /\ Init
  /\ \A f \in FeedFetchers : world[f] = Nominal(f)
  /\ world["get_gemini_status"] \in PageDocs \ {"hang"}

RepeatSpec == InitRepeat /\ [][NextTimed]_vars

\* the status functions for feeds called one at a time
NextFeedCall == CallFeedFunction

FeedCallSpec == InitNominal /\ [][NextFeedCall]_vars

\* the status functions that read a status page called one at a time; the
\* three page sources share no state, and a behaviour keeps to one of them
NextPageCall ==
  \/ \E source \in PageSources :
       /\ \A other \in PageSources \ {source} : drivers[other] = {}
       /\ CallPageFunction(source)
  \/ CallLlamaIndex

PageCallSpec == InitNominal /\ [][NextPageCall]_vars

\* the same calls, and cleanup_resources between them
NextTeardown ==
  \/ NextPageCall
  \/ CleanupResources

TeardownSpec == InitNominal /\ [][NextTeardown]_vars

\* one dashboard session, each source either nominal or never answering;
\* the event loop keeps running ready tasks, the worker thread keeps being
\* scheduled, and a finished gather resumes fetch_all_statuses
InitStuck ==
  /\ Init
  /\ \A f \in FetcherSet : world[f] \in {Nominal(f), "hang"}

FairSpec ==
  /\ InitStuck
  /\ [][Next]_vars
  /\ WF_vars(RunTask("s1"))
  /\ WF_vars(GeminiStep("s1"))
  /\ WF_vars(Assemble("s1"))

(* ---------------------------------------------------------------------- *)
(* Properties                                                             *)
(* ---------------------------------------------------------------------- *)

\* the configured source ids
ConfiguredIds ==
  {"openai", "deepseek", "gemini", "anthropic", "perplexity", "langsmith",
   "aws", "gcp", "azure"}

\* the source id each status function reports for
OwnId(f) ==
  CASE f = "get_openai_status"     -> "openai"
    [] f = "get_deepseek_status"   -> "deepseek"
    [] f = "get_gemini_status"     -> "gemini"
    [] f = "get_anthropic_status"  -> "anthropic"
    [] f = "get_perplexity_status" -> "perplexity"
    [] f = "get_langsmith_status"  -> "langsmith"
    [] f = "get_aws_status"        -> "aws"
    [] f = "get_gcp_status"        -> "gcp"
    [] f = "get_azure_status"      -> "azure"

\* the public status page of each source
StatusPage(id) ==
  CASE id = "openai"     -> "https://status.openai.com"
    [] id = "deepseek"   -> "https://status.deepseek.com"
    [] id = "gemini"     -> "https://aistudio.google.com/status"
    [] id = "anthropic"  -> "https://status.anthropic.com"
    [] id = "perplexity" -> "https://status.perplexity.com"
    [] id = "langsmith"  -> "https://status.smith.langchain.com"
    [] id = "aws"        -> "https://health.aws.amazon.com/health/status"
    [] id = "gcp"        -> "https://status.cloud.google.com"
    [] id = "azure"      -> "https://status.azure.com"

\* fetch_all_statuses has returned to main() in this script run
Returned(s) == pc[s] = "display" /\ should_refresh[s]

\* ... and it returned from its try block, not from its outer handler
Completed(s) == Returned(s) /\ status_text[s] = "ready"

\* the mapping the cycle returned
Snapshot(s) == all_statuses[s][1]

\* some task of the cycle raised
SomeTaskRaised(s) == \E i \in DOMAIN results[s] : IsException(results[s][i])

C2_Isolation ==
  \A s \in Sessions : Completed(s) =>
    \A i \in DOMAIN results[s] :
      ~IsException(results[s][i]) =>
        /\ OwnId(Fetchers[i]) \in DOMAIN Snapshot(s)
        /\ Snapshot(s)[OwnId(Fetchers[i])] = results[s][i]

C2_Witness ==
  \E s \in Sessions :
    /\ Completed(s)
    /\ IsException(results[s][5])
    /\ Snapshot(s)["azure"] = get_azure_status(world["get_azure_status"])
    /\ Snapshot(s)["azure"].status = "Operational"

\* C3 as stated: the record substituted for a task that raised has status
\* Unknown, the source's own status page as status_url and the placeholder
\* issue link.
C3_SubstituteCarriesStatusPage ==
  \A s \in Sessions : Completed(s) =>
    \A i \in DOMAIN results[s] :
      IsException(results[s][i]) =>
        LET id == OwnId(Fetchers[i]) IN
        /\ Snapshot(s)[id].status = "Unknown"
        /\ Snapshot(s)[id].status_url = StatusPage(id)
        /\ "issue_link" \in DOMAIN Snapshot(s)[id]
        /\ Snapshot(s)[id].issue_link = NO_LINK

\* C3 as amended: the record substituted for a task that raised has status
\* Unknown, the fixed status_url "#", no issue_link key, and the keys
\* last_update "N/A", title "Error" and a description.
C3_SubstituteIsPlaceholder ==
  \A s \in Sessions : Completed(s) =>
    \A i \in DOMAIN results[s] :
      IsException(results[s][i]) =>
        LET id == OwnId(Fetchers[i]) IN
        /\ DOMAIN Snapshot(s)[id] =
             {"name", "status", "status_url", "last_update", "title", "description"}
        /\ Snapshot(s)[id].status = "Unknown"
        /\ Snapshot(s)[id].status_url = "#"
        /\ Snapshot(s)[id].last_update = "N/A"
        /\ Snapshot(s)[id].title = "Error"

C3_Witness ==
  \E s \in Sessions :
    /\ Completed(s)
    /\ IsException(results[s][5])
    /\ Snapshot(s)["perplexity"].status_url = "#"

\* C4 as stated: no status function raises to the coordinator.
C4_NoStatusFunctionRaises ==
  \A s \in Sessions : ~SomeTaskRaised(s)

\* the feed of status function f is empty or unparsable
ZeroEntries(f) ==
  /\ f \in FeedFetchers
  /\ ~FetchRaises(world[f])
  /\ ~Hangs(world[f])
  /\ Entries(world[f]) = <<>>

C6_StuckTaskNeverStalls ==
  \A s \in Sessions :
    (pc[s] = "gather") ~>
      (/\ Returned(s)
       /\ \A f \in FetcherSet :
            Hangs(world[f]) => Snapshot(s)[OwnId(f)].status = "Unknown")

\* C7: fetch_all_statuses returns to main() only when each of the nine tasks
\* has finished; no task is pending or running at that point.
C7_NoEarlyReturn ==
  \A s \in Sessions : Returned(s) =>
    /\ DOMAIN results[s] = 1..Len(Fetchers)
    /\ next_task[s] = Len(Fetchers) + 1
    /\ gem[s].pc = "idle"

C7_Witness ==
  \E s \in Sessions :
    /\ Returned(s)
    /\ DOMAIN results[s] = 1..Len(Fetchers)
    /\ chrome_driver_gemini # None

\* a script run of session s takes its cache decision in this step
ScriptStarts(s) == pc[s] \in {"idle", "rerun"} /\ pc'[s] \in {"gather", "display"}

\* C8 as stated: a script run that finds no stored snapshot, or one older
\* than the TTL, runs a new cycle; this for every age above the TTL.
C8_RefreshWheneverStale ==
  [][\A s \in Sessions :
       (/\ ScriptStarts(s)
        /\ \/ cached_statuses[s] = None
           \/ cache_timestamp[s] = None
           \/ now - cache_timestamp[s][1] > CACHE_TTL)
       => pc'[s] = "gather"]_vars

\* C9: a script run that finds a stored snapshot no older than the TTL runs
\* no cycle and returns the stored snapshot, and neither it nor the end of a
\* script run changes the stored snapshot or its timestamp.
C9_CacheHitIdempotent ==
  [][\A s \in Sessions :
       /\ (/\ ScriptStarts(s)
           /\ cached_statuses[s] # None
           /\ cache_timestamp[s] # None
           /\ now - cache_timestamp[s][1] <= CACHE_TTL)
          => /\ pc'[s] = "display"
             /\ all_statuses'[s] = cached_statuses[s]
             /\ cached_statuses'[s] = cached_statuses[s]
             /\ cache_timestamp'[s] = cache_timestamp[s]
       /\ (pc[s] = "display" /\ pc'[s] = "idle")
          => /\ cached_statuses'[s] = cached_statuses[s]
             /\ cache_timestamp'[s] = cache_timestamp[s]]_vars

C9_Witness ==
  \E s \in Sessions :
    /\ pc[s] = "display"
    /\ ~should_refresh[s]
    /\ now - cache_timestamp[s][1] > 0
    /\ now - cache_timestamp[s][1] <= CACHE_TTL
    /\ all_statuses[s] = cached_statuses[s]

\* C10 as stated: at most one aggregation cycle is in flight in the process.
C10_SingleCycleInFlight ==
  Cardinality({s \in Sessions : pc[s] = "gather"}) <= 1

\* C11 as stated: the stored snapshot is absent or holds all nine configured
\* ids, and a cycle that ended in the outer handler of fetch_all_statuses
\* stores nothing: the snapshot kept in the session is never that cycle's
\* empty result.
C11_AtomicPublication ==
  \A s \in Sessions :
    /\ cached_statuses[s] # None => DOMAIN cached_statuses[s][1] = ConfiguredIds
    /\ (Returned(s) /\ status_text[s] = "error") =>
         cached_statuses[s] # all_statuses[s]

\* the worker of session s has navigated its driver and has not yet read the
\* status element
UsingDriver(s) == gem[s].pc \in {"reveal", "read"}

\* C12 as stated: two invocations of get_gemini_status never use the same
\* driver at the same time; between one invocation's navigation and its
\* reading of the status element no other invocation is inside its own
\* navigate / reveal / wait / read steps on that driver.
C12_BrowserSessionMutualExclusion ==
  \A s \in Sessions, t \in Sessions :
    (s # t /\ UsingDriver(s) /\ UsingDriver(t)) => gem[s].driver # gem[t].driver

\* C13 as stated: at most one driver created for a source and not quit
\* exists at any time.
C13_AtMostOneLiveDriver ==
  \A source \in PageSources : Cardinality(drivers[source]) <= 1

\* some task of the cycle of session s has not finished although its source
\* answers
SiblingPending(s) ==
  \E i \in 1..Len(Fetchers) :
    i \notin DOMAIN results[s] /\ ~Hangs(world[Fetchers[i]])

\* C14 as stated: within a cycle a fetcher blocked in its network call keeps
\* no sibling task from starting or progressing; as long as a task whose
\* source answers is unfinished, the event loop or the worker thread can
\* take a step.
C14_BlockedFetchLeavesSiblingsFree ==
  \A s \in Sessions :
    (pc[s] = "gather" /\ SiblingPending(s)) =>
      ENABLED (RunTask(s) \/ GeminiStep(s))

\* C15 as stated: after any cycle outcome the render step succeeds: the nine
\* lookups find their keys, every card finds its fields, and a source whose
\* record says Unknown gets the card of an unknown status.
C15_RenderNeverFails ==
  \A s \in Sessions :
    /\ screen[s] # "KeyError"
    /\ Returned(s) =>
         LET cards == RenderCards(Snapshot(s)) IN
         /\ Rendered(cards)
         /\ \A id \in RenderedIds :
              Snapshot(s)[id]["status"] = "Unknown" =>
                cards[id]["status_class"] = "status-unknown"

\* the status functions whose rule looks for a phrase in the latest entry
PositivePhraseFetchers ==
  {"get_openai_status", "get_deepseek_status", "get_anthropic_status",
   "get_langsmith_status", "get_perplexity_status", "get_gcp_status"}

\* a feed with at least one entry whose first entry, the most recent one,
\* has every field
WellFormed(doc) ==
  /\ Entries(doc) # <<>>
  /\ Has(Entries(doc)[1], {"title", "link", "description", "content", "updated"})
  /\ Entries(doc)[1].updated.iso

\* the phrase rule of each source
PositiveRule(fn, e) ==
  CASE fn = "get_openai_status" ->
         Contains(OPENAI_PHRASE, Lower(e.description))
    [] fn = "get_deepseek_status" ->
         Contains(RESOLVED_PHRASE, Lower(e.content))
    [] fn \in {"get_anthropic_status", "get_langsmith_status"} ->
         Contains(RESOLVED_PHRASE, Lower(e.description))
    [] fn = "get_perplexity_status" ->
         /\ Contains(RESOLVED_PHRASE, Lower(e.description))
         /\ ~Contains(API_OUTAGE_PHRASE, Lower(e.description))
    [] fn = "get_gcp_status" ->
         Contains(GCP_PHRASE, Lower(e.title))

\* C16: for a non-empty well-formed feed, a positive-phrase status function
\* returns Operational when the latest entry matches the source's rule and
\* Disrupted otherwise; the OpenAI body "All impacted services have now
\* fully recovered." gives Operational and "We are investigating elevated
\* error rates." gives Disrupted.
C16_PositivePhraseRules ==
  call # None =>
    LET c == call[1] IN
    (c.fn \in PositivePhraseFetchers /\ WellFormed(c.doc)) =>
      LET latest == Entries(c.doc)[1] IN
      /\ c.ret.status = (IF PositiveRule(c.fn, latest) THEN "Operational" ELSE "Disrupted")
      /\ (c.fn = "get_openai_status" /\ latest.description = BodyRecovered) =>
           c.ret.status = "Operational"
      /\ (c.fn = "get_openai_status" /\ latest.description = BodyIncident) =>
           c.ret.status = "Disrupted"

C16_Witness ==
  /\ call # None
  /\ call[1].fn = "get_perplexity_status"
  /\ call[1].doc = "outage_resolved"
  /\ call[1].ret.status = "Disrupted"

\* C17 as stated: get_azure_status and get_aws_status return Unknown when
\* fetching or parsing the feed fails, Disrupted when the feed has an entry
\* and Operational when the parsed feed has none.
C17_PresenceRule ==
  call # None =>
    LET c == call[1] IN
    c.fn \in {"get_azure_status", "get_aws_status"} =>
      c.ret.status =
        (IF FetchRaises(c.doc) \/ ParseFails(c.doc) THEN "Unknown"
         ELSE IF Entries(c.doc) # <<>> THEN "Disrupted"
         ELSE "Operational")

\* the last direct call, once there is one
LastCall == call[1]

\* the call obtained a driver, navigated and found the page's root element
PageFetched(c) ==
  /\ c.fn \in {"get_gemini_status", "get_dify_status", "get_alicloud_status"}
  /\ c.made # "none"
  /\ \E source \in PageSources :
       PageFunction(source) = c.fn /\ ReachesReveal(source, c.doc)

\* Gemini: the page has no div.status-large
GeminiAnchorAbsent(c) ==
  /\ c.fn = "get_gemini_status"
  /\ PageFetched(c)
  /\ ~PageOf(c.doc).status_large

\* Gemini: div.status-large has fewer than two span children
GeminiFewSpans(c) ==
  /\ c.fn = "get_gemini_status"
  /\ PageFetched(c)
  /\ PageOf(c.doc).status_large
  /\ Len(PageOf(c.doc).spans) < 2

\* LlamaIndex: the page was fetched and has no <p class="color-secondary">
LlamaIndexAnchorAbsent(c) ==
  /\ c.fn = "get_llamaindex_status"
  /\ ~LlamaIndexPageOf(c.doc).raises
  /\ LlamaIndexPageOf(c.doc).color_secondary = <<>>

\* Dify: the status element has no h2
DifyNoHeading(c) ==
  /\ c.fn = "get_dify_status"
  /\ PageFetched(c)
  /\ DifyPageOf(c.doc).page_status
  /\ DifyPageOf(c.doc).h2_elements = <<>>

\* C18 as stated: whenever the fetch succeeded and the rule's structural
\* anchor cannot be located, the record's status is Unknown.
C18_StructuralMismatchUnknown ==
  (/\ call # None
   /\ \/ GeminiAnchorAbsent(LastCall)
      \/ GeminiFewSpans(LastCall)
      \/ LlamaIndexAnchorAbsent(LastCall)
      \/ DifyNoHeading(LastCall))
  => LastCall.ret.status = "Unknown"

\* C18, amended: a Gemini page without div.status-large gives Unknown; a
\* div.status-large with fewer than two spans, a LlamaIndex page without
\* <p class="color-secondary"> and a Dify status element without h2 give
\* Disrupted.
C18_StructuralMismatchByAnchor ==
  call # None =>
    /\ GeminiAnchorAbsent(LastCall) => LastCall.ret.status = "Unknown"
    /\ GeminiFewSpans(LastCall) => LastCall.ret.status = "Disrupted"
    /\ LlamaIndexAnchorAbsent(LastCall) => LastCall.ret.status = "Disrupted"
    /\ DifyNoHeading(LastCall) => LastCall.ret.status = "Disrupted"

C18_Witness ==
  /\ call # None
  /\ LlamaIndexAnchorAbsent(LastCall)
  /\ LastCall.ret.status = "Disrupted"

\* the element the final wait of a page function looks for is on the page
FinalAnchorPresent(source, doc) ==
  CASE source = "gemini"   -> PageOf(doc).status_large
    [] source = "alicloud" -> AlicloudPageOf(doc).no_event
    [] source = "dify"     -> DifyPageOf(doc).page_status

\* C19: when the reveal step of a page function finds nothing to click, or a
\* lookup or click in it raises, the call still goes on to the final wait
\* and its result is that of the final step alone: it is Unknown only when
\* the status element is absent, and it equals the result of a call whose
\* reveal step clicked an element.
C19_RevealBestEffort ==
  call # None =>
    \A source \in PageSources :
      (/\ LastCall.fn = PageFunction(source)
       /\ PageFetched(LastCall)
       /\ LastCall.reveal \in {"nothing", "raises"})
      => /\ LastCall.ret.status = "Unknown" <=> ~FinalAnchorPresent(source, LastCall.doc)
         /\ LastCall.ret = PageStatus(source, Some(1), LastCall.doc, "clicked")

C19_Witness ==
  /\ call # None
  /\ LastCall.fn = "get_alicloud_status"
  /\ PageFetched(LastCall)
  /\ LastCall.reveal = "raises"
  /\ LastCall.ret.status = "Operational"

\* the status page each page function reports
PageStatusUrl(source) ==
  CASE source = "gemini"   -> "https://aistudio.google.com/status"
    [] source = "alicloud" -> "https://status.alibabacloud.com"
    [] source = "dify"     -> "https://dify.statuspage.io/"

\* C20: a page function whose primary driver creation (uc.Chrome) fails
\* tries the secondary one (webdriver.Chrome) and uses its driver; when both
\* fail, or navigation fails, or the wait for the root element or for the
\* status element times out, it returns a record with status Unknown and
\* the source's status URL; it never raises.
C20_RenderedPageFailureHandling ==
  call # None =>
    \A source \in PageSources :
      LastCall.fn = PageFunction(source) =>
        /\ (LastCall.made # "reused" /\ ~LastCall.uc_ok /\ LastCall.wd_ok) =>
             LastCall.made = "webdriver"
        /\ (LastCall.made # "reused" /\ ~LastCall.uc_ok /\ ~LastCall.wd_ok) =>
             LastCall.made = "none"
        /\ (\/ LastCall.made = "none"
            \/ ~ReachesReveal(source, LastCall.doc)
            \/ ~FinalAnchorPresent(source, LastCall.doc)) =>
             /\ LastCall.ret.status = "Unknown"
             /\ LastCall.ret.status_url = PageStatusUrl(source)
        /\ ~IsException(LastCall.ret)

C20_Witness ==
  /\ call # None
  /\ LastCall.fn = "get_gemini_status"
  /\ ~LastCall.uc_ok
  /\ LastCall.made = "webdriver"
  /\ LastCall.doc = "noanchor"
  /\ LastCall.ret.status = "Unknown"

\* C21 as stated: every feed document is fetched through the shared HTTP
\* session, with a timeout and with at most three retries on 429, 500, 502,
\* 503 and 504.
C21_FeedFetchThroughBoundedTransport ==
  (call # None /\ LastCall.fn \in FeedFetchers) =>
    /\ LastCall.request.via = "session"
    /\ LastCall.request.timeout # None
    /\ LastCall.request.retries = 3
    /\ LastCall.request.retry_on = {429, 500, 502, 503, 504}

\* two records agree in status, status URL and issue link; a record
\* substituted for a failed task has no issue link
SameOutcome(a, b) ==
  /\ a["status"] = b["status"]
  /\ a["status_url"] = b["status_url"]
  /\ ("issue_link" \in DOMAIN a) = ("issue_link" \in DOMAIN b)
  /\ "issue_link" \in DOMAIN a => a["issue_link"] = b["issue_link"]

\* the record of source id shows that its content was fetched and read
ContentRead(record) == record["status"] # "Unknown"

C23_AlicloudAsDocumented ==
  (call # None /\ LastCall.fn = "get_alicloud_status") =>
    LET page == AlicloudPageOf(LastCall.doc) IN
    /\ (LastCall.made # "none" /\ page.nav_ok /\ page.container) =>
         LastCall.ret.status = (IF page.no_event THEN "Operational" ELSE "Disrupted")
    /\ LastCall.ret.status = "Unknown" => LastCall.made = "none"

Invocations(c, r) == Cardinality({i \in DOMAIN c.invoked : c.invoked[i] = r})

\* C25: after cleanup_resources has returned, the three driver handles and
\* the HTTP session handle are None whichever quit() or close() raised; quit()
\* or close() was called exactly once for each handle that was not None and
\* not at all for the others, so a failing teardown does not stop the rest.
C25_CleanupTeardown ==
  (call # None /\ LastCall.fn = "cleanup_resources") =>
    /\ chrome_driver_gemini = None
    /\ chrome_driver_alicloud = None
    /\ chrome_driver_dify = None
    /\ http_session = None
    /\ \A r \in Resources :
         Invocations(LastCall, r) = IF LastCall.before[r] # None THEN 1 ELSE 0

C25_Witness ==
  /\ call # None
  /\ LastCall.fn = "cleanup_resources"
  /\ \E source \in PageSources :
       /\ LastCall.before[source] # None
       /\ source \in LastCall.raises
  /\ LastCall.before["http_session"] # None
  /\ Invocations(LastCall, "http_session") = 1

\* C26: a click on "Refresh Now" leaves cached_statuses, cache_timestamp and
\* last_refresh of the session None, and the script run that follows the
\* click starts an aggregation cycle, however recent the snapshot was.
C26_RefreshNowForcesCycle ==
  [][\A s \in Sessions :
       /\ (pc[s] = "idle" /\ pc'[s] = "rerun") =>
            /\ cached_statuses'[s] = None
            /\ cache_timestamp'[s] = None
            /\ last_refresh'[s] = None
       /\ (pc[s] = "rerun" /\ pc'[s] # "rerun") =>
            /\ should_refresh'[s]
            /\ pc'[s] = "gather"]_vars

C26_Witness ==
  \E s \in Sessions :
    /\ pc[s] = "gather"
    /\ screen[s] = "cards"
    /\ cached_statuses[s] = None
    /\ current_time[s] = Some(0)

\* C27: in every state of a dashboard session, cached_statuses is None
\* exactly when cache_timestamp is None.
C27_CachePairing ==
  \A s \in Sessions : (cached_statuses[s] = None) <=> (cache_timestamp[s] = None)

C27_Witness ==
  \E s \in Sessions :
    /\ cached_statuses[s] = Some(EmptyDict)
    /\ cache_timestamp[s] # None
    /\ status_text[s] = "error"

\* C28 as stated: the capture time stored with a refreshed snapshot is the
\* clock value read before the cycle started, and when the cycle took longer
\* than 60 seconds a render at its completion does not hit the cache.
C28_CaptureTimeBeforeCycle ==
  [][\A s \in Sessions :
       (pc[s] = "gather" /\ pc'[s] = "display") =>
         /\ cache_timestamp'[s] = current_time[s]
         /\ current_time[s][1] <= now
         /\ now - current_time[s][1] > 60 =>
              ShouldRefresh(cached_statuses'[s], cache_timestamp'[s], now)]_vars

\* C29: a call of a positive-phrase status function with a non-empty feed
\* returns what it returns for every other non-empty feed with the same
\* first entry in document order, whatever entries follow and whatever
\* their "updated" times are.
C29_FirstEntryOnly ==
  (/\ call # None
   /\ LastCall.fn \in PositivePhraseFetchers
   /\ Entries(LastCall.doc) # <<>>)
  => \A other \in CallFeedDocs :
       (/\ Entries(other) # <<>>
        /\ Entries(other)[1] = Entries(LastCall.doc)[1])
       => RunFetcher(LastCall.fn, other) = LastCall.ret

C29_Witness ==
  /\ call # None
  /\ LastCall.fn = "get_openai_status"
  /\ LastCall.doc = "newer_resolved"
  /\ Entries(LastCall.doc)[2].updated.at > Entries(LastCall.doc)[1].updated.at
  /\ Entries("incident")[1] = Entries(LastCall.doc)[1]
  /\ LastCall.ret.status = "Disrupted"
  /\ LastCall.ret.issue_link = EntryIncident.link

\* the first entry of the feed lacks a field the status function reads
LacksReadField(fn, e) ==
  CASE fn \in {"get_openai_status", "get_anthropic_status", "get_langsmith_status"} ->
         ~Has(e, {"title", "link", "description"})
    [] fn = "get_deepseek_status" ->
         \/ ~Has(e, {"title", "link"})
         \/ ~Has(e, {"updated"})
         \/ ~e.updated.iso
    [] OTHER -> FALSE

\* C30: a call of get_openai_status, get_anthropic_status or
\* get_langsmith_status whose first entry lacks title, link or description,
\* and a call of get_deepseek_status whose first entry lacks title, link or an
\* "updated" value in ISO format, returns Unknown with the placeholder issue
\* link, also when the entry's body holds the resolution phrase.
C30_MissingFieldsUnknown ==
  (/\ call # None
   /\ LastCall.fn \in FeedFetchers
   /\ Entries(LastCall.doc) # <<>>
   /\ LacksReadField(LastCall.fn, Entries(LastCall.doc)[1]))
  => /\ LastCall.ret.status = "Unknown"
     /\ LastCall.ret.issue_link = NO_LINK

C30_Witness ==
  /\ call # None
  /\ LastCall.fn = "get_deepseek_status"
  /\ LastCall.doc = "bad_updated"
  /\ Contains(RESOLVED_PHRASE, Lower(Entries(LastCall.doc)[1].content))
  /\ LastCall.ret.status = "Unknown"

====
